---- MODULE Spec2Model ----
(***************************************************************************)
(* Model of align_test_prep.py (Python 2): main reads each input file of   *)
(* its argument list, splits it into lines, and writes <basename>.out into *)
(* the current directory: one token per line, '.PARA' for comment lines,   *)
(* '.End of Sentence' after every other line.                              *)
(*                                                                         *)
(* Strings are sequences of one-character strings.  The file system maps   *)
(* path strings to files; two different path strings name two different    *)
(* files (no links, no './' spellings).                                    *)
(***************************************************************************)
EXTENDS Integers, Sequences, FiniteSets, TLC

VARIABLES argv, entry, fs, fs0, files, idx, in_file, handles, text, lines,
          out_file, ln, stdout, pc, err, created, readLog

vars == <<argv, entry, fs, fs0, files, idx, in_file, handles, text, lines,
          out_file, ln, stdout, pc, err, created, readLog>>

(* ------------------------------ bounds --------------------------------- *)
MaxTextLen == 4
MaxFiles == 2

(* ------------------------- string helpers ------------------------------ *)
NL == "\n"
CR == "\r"
PARA == <<".", "P", "A", "R", "A">>
EOS == <<".", "E", "n", "d", " ", "o", "f", " ", "S", "e", "n", "t", "e", "n", "c", "e">>
OutSuffix == <<".", "o", "u", "t">>
CommentMarker == "#"

\* characters unicode.split() treats as separators (those the model can write)
WhiteSpace == {" ", "\t", "\n", "\r", "\f"}
\* characters unicode.splitlines() treats as line boundaries
LineBreaks == {"\n", "\r", "\f"}

Drop(s, n) == SubSeq(s, n + 1, Len(s))
Take(s, n) == SubSeq(s, 1, n)

RECURSIVE Flatten(_)
Flatten(ss) == IF ss = <<>> THEN <<>> ELSE Head(ss) \o Flatten(Tail(ss))

(* ------------------------- unicode.split() ----------------------------- *)
\* index of the first position >= i of s whose character is (not) whitespace,
\* Len(s)+1 when there is none
RECURSIVE SkipWhile(_, _, _)
SkipWhile(s, i, ws) ==
    IF i <= Len(s) /\ ((s[i] \in WhiteSpace) = ws) THEN SkipWhile(s, i + 1, ws) ELSE i

RECURSIVE SplitFrom(_, _)
SplitFrom(s, i) ==
    LET b == SkipWhile(s, i, TRUE)
        e == SkipWhile(s, b, FALSE)
    IN  IF b > Len(s) THEN <<>> ELSE <<SubSeq(s, b, e - 1)>> \o SplitFrom(s, e)

\* s.split(c): cut at every single occurrence of the character c
RECURSIVE SplitOnChar(_, _, _)
SplitOnChar(s, i, c) ==
    LET e == IF \E k \in i..Len(s) : s[k] = c
             THEN CHOOSE k \in i..Len(s) : s[k] = c /\ \A m \in i..(k - 1) : s[m] # c
             ELSE Len(s) + 1
    IN  <<SubSeq(s, i, e - 1)>> \o (IF e > Len(s) THEN <<>> ELSE SplitOnChar(s, e + 1, c))

\* variant: line.split(' ')
Split_EachSpace(line) == SplitOnChar(line, 1, " ")

Split(line) == SplitFrom(line, 1)

(* ----------------------- str.startswith('#') --------------------------- *)
\* variant: line.lstrip().startswith('#')
StartsWithMarker_AfterStrip(line) ==
    LET b == SkipWhile(line, 1, TRUE) IN b <= Len(line) /\ line[b] = CommentMarker

StartsWithMarker(line) == Len(line) >= 1 /\ line[1] = CommentMarker

(* ----------------------- unicode.splitlines() -------------------------- *)
RECURSIVE FindBreak(_, _)
FindBreak(s, i) ==
    IF i <= Len(s) /\ s[i] \notin LineBreaks THEN FindBreak(s, i + 1) ELSE i

RECURSIVE SplitLinesFrom(_, _)
SplitLinesFrom(s, i) ==
    IF i > Len(s) THEN <<>>
    ELSE LET eol == FindBreak(s, i)
             nxt == IF eol > Len(s) THEN eol
                    ELSE IF s[eol] = CR /\ eol + 1 <= Len(s) /\ s[eol + 1] = NL
                         THEN eol + 2 ELSE eol + 1
         IN  <<SubSeq(s, i, eol - 1)>> \o SplitLinesFrom(s, nxt)

\* variant: inpt.read().split('\n')
SplitLines_OnNewline(s) == SplitOnChar(s, 1, NL)

SplitLines(s) == SplitLinesFrom(s, 1)

(* --------------------------- os.path.basename -------------------------- *)
RECURSIVE RFind(_, _, _)
RFind(s, c, i) == IF i = 0 \/ s[i] = c THEN i ELSE RFind(s, c, i - 1)

\* variant: cut after the first '/' instead of the last
Basename_FirstSlash(p) ==
    IF "/" \in { p[i] : i \in 1..Len(p) }
    THEN Drop(p, CHOOSE k \in 1..Len(p) : p[k] = "/" /\ \A m \in 1..(k - 1) : p[m] # "/")
    ELSE p

Basename(p) == Drop(p, RFind(p, "/", Len(p)))

(* -------------------- writes made for one input line ------------------- *)
RECURSIVE WordWrites(_)
WordWrites(ws) == IF ws = <<>> THEN <<>> ELSE <<Head(ws) \o <<NL>> >> \o WordWrites(Tail(ws))

\* variant: the line is written whole instead of word by word
LineWrites_WholeLine(line) ==
    IF StartsWithMarker(line) THEN << PARA \o <<NL>> >>
    ELSE << line \o <<NL>> >> \o << EOS \o <<NL>> >>

\* the sequence of strings handed to output.write() for one line
LineWrites(line) ==
    IF StartsWithMarker(line) THEN << PARA \o <<NL>> >>
    ELSE WordWrites(Split(line)) \o << EOS \o <<NL>> >>

(* --------------------------- with-block exit --------------------------- *)
\* variant: the handle is left open
WithExit_Leak(hs, h) == hs

WithExit(hs, h) == hs \ {h}

(* ----------------------------- file system ----------------------------- *)
NoFile == [kind |-> "none", data |-> <<>>]
BadFile == [kind |-> "bad", data |-> <<>>]
TextFile(t) == [kind |-> "text", data |-> t]

Str(p) == [kind |-> "str", val |-> p]
List(ps) == [kind |-> "list", val |-> ps]

Paths == { <<"a">>, <<"d", "/", "a">>, <<"d", "/", "e", "/", "b">>, <<"a", ".", "o", "u", "t">> }
OutPathOf(p) == Basename(p) \o OutSuffix
FsPaths == Paths \cup { OutPathOf(p) : p \in Paths }

Alphabet == {"#", " ", "w", "\n", "\r"}
RECURSIVE TextsUpTo(_)
TextsUpTo(n) ==
    IF n = 0 THEN {<<>>}
    ELSE LET S == TextsUpTo(n - 1)
         IN  S \cup { Append(t, c) : t \in {u \in S : Len(u) = n - 1}, c \in Alphabet }

SampleTexts == { <<"#", "x", " ", "y", "\n", " ", "#", "\n", "\n", "w", " ", "w", "\n">>, <<" ", "w">> }
OldText == <<"o", "l", "d", "\n">>

RECURSIVE SeqsUpTo(_, _)
SeqsUpTo(S, n) ==
    IF n = 0 THEN {<<>>}
    ELSE LET R == SeqsUpTo(S, n - 1)
         IN  R \cup { Append(t, c) : t \in {u \in R : Len(u) = n - 1}, c \in S }

Range(s) == { s[i] : i \in 1..Len(s) }

\* files the run can touch: the listed paths and their output paths
Touched(ps) == Range(ps) \cup { OutPathOf(p) : p \in Range(ps) }

FileChoices(p) ==
    IF p \in Paths THEN {NoFile, BadFile} \cup { TextFile(t) : t \in SampleTexts }
    ELSE {NoFile, TextFile(OldText)}

InitLocals ==
    /\ fs0 = fs
    /\ files = <<>>
    /\ idx = 0
    /\ in_file = Str(<<>>)
    /\ handles = {}
    /\ text = <<>>
    /\ lines = <<>>
    /\ out_file = <<>>
    /\ ln = 0
    /\ stdout = <<>>
    /\ pc = "start"
    /\ err = "none"
    /\ created = {}
    /\ readLog = <<>>

\* one file, every text up to MaxTextLen
InitText ==
    /\ argv = << <<"a">> >>
    /\ entry = "call"
    /\ \E t \in TextsUpTo(MaxTextLen), old \in {NoFile, TextFile(OldText)} :
          fs = [p \in FsPaths |-> IF p = <<"a">> THEN TextFile(t)
                                  ELSE IF p = OutPathOf(<<"a">>) THEN old ELSE NoFile]
    /\ InitLocals

\* every list of up to MaxFiles paths, run as a script or by calling main
InitRun ==
    /\ argv \in SeqsUpTo(Paths, MaxFiles)
    /\ entry \in {"script", "call"}
    /\ \E g \in [Touched(argv) -> UNION { FileChoices(p) : p \in FsPaths }] :
          /\ \A p \in Touched(argv) : g[p] \in FileChoices(p)
          /\ fs = [p \in FsPaths |-> IF p \in Touched(argv) THEN g[p] ELSE NoFile]
    /\ InitLocals

Init == InitText \/ InitRun

(* ------------------------------- actions ------------------------------- *)
RECURSIVE StrsOf(_)
StrsOf(ps) == IF ps = <<>> THEN <<>> ELSE <<Str(Head(ps))>> \o StrsOf(Tail(ps))

\* the argument tuple main receives: the script passes the argument list as
\* ONE positional argument, a direct call main(p1, ..., pn) passes n strings
ScriptArgs(av) == << List(av) >>
CallArgs(av) == StrsOf(av)

\* raising: the exception leaves main and ends the run
Raise(e) == /\ err' = e
            /\ pc' = "failed"

\* if __name__ == '__main__': main(sys.argv[1:])
RunScript ==
    /\ pc = "start" /\ entry = "script"
    /\ files' = ScriptArgs(argv)
    /\ pc' = "for"
    /\ UNCHANGED <<argv, entry, fs, fs0, idx, in_file, handles, text, lines,
                   out_file, ln, stdout, err, created, readLog>>

\* main(p1, ..., pn) called by an importer
CallMain ==
    /\ pc = "start" /\ entry = "call"
    /\ files' = CallArgs(argv)
    /\ pc' = "for"
    /\ UNCHANGED <<argv, entry, fs, fs0, idx, in_file, handles, text, lines,
                   out_file, ln, stdout, err, created, readLog>>

\* for in_file in files: take the next element
NextFile ==
    /\ pc = "for" /\ idx < Len(files)
    /\ idx' = idx + 1
    /\ in_file' = files[idx + 1]
    /\ pc' = "open_in"
    /\ UNCHANGED <<argv, entry, fs, fs0, files, handles, text, lines,
                   out_file, ln, stdout, err, created, readLog>>

\* for in_file in files: exhausted, main returns
Finish ==
    /\ pc = "for" /\ idx = Len(files)
    /\ pc' = "done"
    /\ UNCHANGED <<argv, entry, fs, fs0, files, idx, in_file, handles, text, lines,
                   out_file, ln, stdout, err, created, readLog>>

\* open(in_file, encoding='utf-8') succeeds
OpenInput ==
    /\ pc = "open_in"
    /\ in_file.kind = "str"
    /\ fs[in_file.val].kind # "none"
    /\ handles' = handles \cup {"inpt"}
    /\ pc' = "read"
    /\ UNCHANGED <<argv, entry, fs, fs0, files, idx, in_file, text, lines,
                   out_file, ln, stdout, err, created, readLog>>

\* variant: a path that cannot be opened is skipped and the run goes on
OpenInputFail_SkipFile ==
    /\ pc = "open_in"
    /\ \/ in_file.kind # "str"
       \/ in_file.kind = "str" /\ fs[in_file.val].kind = "none"
    /\ pc' = "for"
    /\ UNCHANGED <<argv, entry, fs, fs0, files, idx, in_file, handles, text, lines,
                   out_file, ln, stdout, err, created, readLog>>

\* open(in_file, ...) raises: a list is not a file name, or there is no file
OpenInputFail ==
    /\ pc = "open_in"
    /\ \/ in_file.kind # "str" /\ Raise("TypeError")
       \/ in_file.kind = "str" /\ fs[in_file.val].kind = "none" /\ Raise("IOError")
    /\ UNCHANGED <<argv, entry, fs, fs0, files, idx, in_file, handles, text, lines,
                   out_file, ln, stdout, created, readLog>>

\* variant: lines += inpt.read().splitlines(), the list is never reset
Read_Accumulate ==
    /\ pc = "read"
    /\ fs[in_file.val].kind = "text"
    /\ text' = fs[in_file.val].data
    /\ lines' = lines \o SplitLines(fs[in_file.val].data)
    /\ readLog' = Append(readLog, fs[in_file.val].data)
    /\ pc' = "close_in"
    /\ UNCHANGED <<argv, entry, fs, fs0, files, idx, in_file, handles,
                   out_file, ln, stdout, err, created>>

\* lines = inpt.read().splitlines()
Read ==
    /\ pc = "read"
    /\ fs[in_file.val].kind = "text"
    /\ text' = fs[in_file.val].data
    /\ lines' = SplitLines(fs[in_file.val].data)
    /\ readLog' = Append(readLog, fs[in_file.val].data)
    /\ pc' = "close_in"
    /\ UNCHANGED <<argv, entry, fs, fs0, files, idx, in_file, handles,
                   out_file, ln, stdout, err, created>>

\* inpt.read() raises UnicodeDecodeError; the with block closes inpt on the way out
ReadFail ==
    /\ pc = "read"
    /\ fs[in_file.val].kind = "bad"
    /\ handles' = WithExit(handles, "inpt")
    /\ Raise("UnicodeDecodeError")
    /\ UNCHANGED <<argv, entry, fs, fs0, files, idx, in_file, text, lines,
                   out_file, ln, stdout, created, readLog>>

\* end of the first with block
CloseInput ==
    /\ pc = "close_in"
    /\ handles' = WithExit(handles, "inpt")
    /\ pc' = "derive"
    /\ UNCHANGED <<argv, entry, fs, fs0, files, idx, in_file, text, lines,
                   out_file, ln, stdout, err, created, readLog>>

\* out_file = os.path.basename(in_file) + '.out'
DeriveOutFile ==
    /\ pc = "derive"
    /\ out_file' = Basename(in_file.val) \o OutSuffix
    /\ pc' = "print"
    /\ UNCHANGED <<argv, entry, fs, fs0, files, idx, in_file, handles, text, lines,
                   ln, stdout, err, created, readLog>>

\* print 'Outputting to:', out_file
PrintNotice ==
    /\ pc = "print"
    /\ stdout' = Append(stdout, out_file)
    /\ pc' = "open_out"
    /\ UNCHANGED <<argv, entry, fs, fs0, files, idx, in_file, handles, text, lines,
                   out_file, ln, err, created, readLog>>

\* variant: open(out_file, 'a', ...), an existing file keeps its content
OpenOutput_Append ==
    /\ pc = "open_out"
    /\ fs' = [fs EXCEPT ![out_file] = IF @.kind = "text" THEN @ ELSE TextFile(<<>>)]
    /\ created' = created \cup {out_file}
    /\ handles' = handles \cup {"output"}
    /\ ln' = 0
    /\ pc' = "write"
    /\ UNCHANGED <<argv, entry, fs0, files, idx, in_file, text, lines,
                   out_file, stdout, err, readLog>>

\* open(out_file, 'w', encoding='utf-8') succeeds: the file is created or truncated
OpenOutput ==
    /\ pc = "open_out"
    /\ fs' = [fs EXCEPT ![out_file] = TextFile(<<>>)]
    /\ created' = created \cup {out_file}
    /\ handles' = handles \cup {"output"}
    /\ ln' = 0
    /\ pc' = "write"
    /\ UNCHANGED <<argv, entry, fs0, files, idx, in_file, text, lines,
                   out_file, stdout, err, readLog>>

\* open(out_file, 'w', ...) raises (no permission, ...): nothing is touched
OpenOutputFail ==
    /\ pc = "open_out"
    /\ Raise("IOError_out")
    /\ UNCHANGED <<argv, entry, fs, fs0, files, idx, in_file, handles, text, lines,
                   out_file, ln, stdout, created, readLog>>

\* one pass of 'for line in lines': all the writes of the line
WriteLine ==
    /\ pc = "write" /\ ln < Len(lines)
    /\ fs' = [fs EXCEPT ![out_file].data = @ \o Flatten(LineWrites(lines[ln + 1]))]
    /\ ln' = ln + 1
    /\ UNCHANGED <<argv, entry, fs0, files, idx, in_file, handles, text, lines,
                   out_file, stdout, pc, err, created, readLog>>

\* a write of the line raises (disk full, ...) after m of its writes went
\* through; the with block closes output on the way out
WriteLineFail ==
    /\ pc = "write" /\ ln < Len(lines)
    /\ \E m \in 0..(Len(LineWrites(lines[ln + 1])) - 1) :
          fs' = [fs EXCEPT ![out_file].data = @ \o Flatten(Take(LineWrites(lines[ln + 1]), m))]
    /\ handles' = WithExit(handles, "output")
    /\ Raise("IOError_out")
    /\ UNCHANGED <<argv, entry, fs0, files, idx, in_file, text, lines,
                   out_file, ln, stdout, created, readLog>>

\* end of the second with block, back to the top of the file loop
CloseOutput ==
    /\ pc = "write" /\ ln = Len(lines)
    /\ handles' = WithExit(handles, "output")
    /\ pc' = "for"
    /\ UNCHANGED <<argv, entry, fs, fs0, files, idx, in_file, text, lines,
                   out_file, ln, stdout, err, created, readLog>>

Next ==
    \/ RunScript
    \/ CallMain
    \/ NextFile
    \/ Finish
    \/ OpenInput
    \/ OpenInputFail
    \/ Read
    \/ ReadFail
    \/ CloseInput
    \/ DeriveOutFile
    \/ PrintNotice
    \/ OpenOutput
    \/ OpenOutputFail
    \/ WriteLine
    \/ WriteLineFail
    \/ CloseOutput

Spec == Init /\ [][Next]_vars

TypeOK ==
    /\ pc \in {"start", "for", "open_in", "read", "close_in", "derive", "print",
               "open_out", "write", "done", "failed"}
    /\ err \in {"none", "TypeError", "IOError", "UnicodeDecodeError", "IOError_out"}
    /\ handles \subseteq {"inpt", "output"}
    /\ idx \in 0..Len(files)
    /\ pc = "write" => ln \in 0..Len(lines)
    /\ created \subseteq FsPaths

(* ======================================================================= *)
(* Reference definitions used by the properties.  They describe lines and  *)
(* tokens by position in the text, not by scanning it.                     *)
(* ======================================================================= *)
IsCommentLine(l) == l # <<>> /\ Head(l) = "#"

\* positions where a maximal run of non-whitespace characters begins
TokenStarts(l) ==
    { i \in 1..Len(l) : l[i] \notin WhiteSpace /\ (i = 1 \/ l[i - 1] \in WhiteSpace) }

\* the last position of the run of characters outside 'stop' that begins at i
RunEnd(l, i, stop) ==
    CHOOSE k \in i..Len(l) :
        /\ \A m \in i..k : l[m] \notin stop
        /\ (k = Len(l) \/ l[k + 1] \in stop)

\* the n-th smallest element of a set of positions
Nth(S, n) == CHOOSE i \in S : Cardinality({ j \in S : j < i }) = n - 1

TokensOf(l) ==
    [ n \in 1..Cardinality(TokenStarts(l)) |->
        LET b == Nth(TokenStarts(l), n) IN SubSeq(l, b, RunEnd(l, b, WhiteSpace)) ]

\* last character of each line terminator ("\r\n" is one terminator)
TermEnds(t) ==
    { i \in 1..Len(t) : t[i] \in LineBreaks /\ ~(t[i] = CR /\ i < Len(t) /\ t[i + 1] = NL) }

LineStarts(t) == { i \in 1..Len(t) : i = 1 \/ (i - 1) \in TermEnds(t) }

LinesOf(t) ==
    [ n \in 1..Cardinality(LineStarts(t)) |->
        LET b == Nth(LineStarts(t), n)
        IN  IF t[b] \in LineBreaks THEN <<>> ELSE SubSeq(t, b, RunEnd(t, b, LineBreaks)) ]

\* the lines of an output file: the text before each "\n"
NLPositions(s) == { i \in 1..Len(s) : s[i] = NL }
OutLines(s) ==
    [ n \in 1..Cardinality(NLPositions(s)) |->
        LET e == Nth(NLPositions(s), n)
            b == IF n = 1 THEN 1 ELSE Nth(NLPositions(s), n - 1) + 1
        IN  SubSeq(s, b, e - 1) ]
NLTerminated(s) == s = <<>> \/ s[Len(s)] = NL

\* the output lines one input line stands for
ExpectedLines(l) == IF IsCommentLine(l) THEN <<PARA>> ELSE TokensOf(l) \o <<EOS>>

RECURSIVE ExpectedLinesAll(_)
ExpectedLinesAll(ls) ==
    IF ls = <<>> THEN <<>> ELSE ExpectedLines(Head(ls)) \o ExpectedLinesAll(Tail(ls))

\* s consists of exactly the given lines, each followed by "\n"
HoldsLines(s, ls) == NLTerminated(s) /\ OutLines(s) = ls

Count(ls, x) == Cardinality({ i \in 1..Len(ls) : ls[i] = x })
NumComments(ls) == Cardinality({ i \in 1..Len(ls) : IsCommentLine(ls[i]) })

\* the longest suffix of p without "/"
FinalComponent(p) ==
    LET k == CHOOSE k \in 0..Len(p) :
                 /\ \A m \in (k + 1)..Len(p) : p[m] # "/"
                 /\ (k = 0 \/ p[k] = "/")
    IN  SubSeq(p, k + 1, Len(p))

\* what a successful WriteLine step appended to the output file
Appended == Drop(fs'[out_file].data, Len(fs[out_file].data))
KeptPrefix == Take(fs'[out_file].data, Len(fs[out_file].data)) = fs[out_file].data
WroteLine == pc = "write" /\ ln < Len(lines) /\ ln' = ln + 1

\* the path just processed has its output closed
FileDone == pc = "for" /\ idx >= 1

\* the last position below n whose path has the output name o
LastWith(o, n) ==
    CHOOSE i \in 1..(n - 1) :
        /\ FinalComponent(files[i].val) \o OutSuffix = o
        /\ \A j \in (i + 1)..(n - 1) : FinalComponent(files[j].val) \o OutSuffix # o

AllReadable == \A p \in Range(argv) : fs0[p].kind = "text"

(* ======================================================================= *)
(* Properties                                                              *)
(* ======================================================================= *)

\* C1: a line that does not start with '#' and has k whitespace-delimited
\* tokens makes the write loop append exactly k+1 lines: the k tokens in
\* left-to-right order, then '.End of Sentence' (k = 0 included).
C1_TokensThenEndOfSentence ==
    [][ (WroteLine /\ ~IsCommentLine(lines[ln + 1])) =>
            LET l == lines[ln + 1]
                k == Cardinality(TokenStarts(l))
            IN  /\ KeptPrefix
                /\ NLTerminated(Appended)
                /\ Len(OutLines(Appended)) = k + 1
                /\ \A n \in 1..k : OutLines(Appended)[n] = TokensOf(l)[n]
                /\ OutLines(Appended)[k + 1] = EOS ]_vars

\* a blank line and a line of two or more tokens have both been written
C1_Witness ==
    /\ pc = "write"
    /\ \E i \in 1..ln : ~IsCommentLine(lines[i]) /\ TokenStarts(lines[i]) = {}
    /\ \E i \in 1..ln : ~IsCommentLine(lines[i]) /\ Cardinality(TokenStarts(lines[i])) >= 2

\* C2: a line whose first character is '#' makes the write loop append the
\* single line '.PARA' and nothing else; a line whose '#' comes after
\* whitespace is tokenized like any other line.
C2_CommentLineGivesPara ==
    [][ WroteLine =>
            LET l == lines[ln + 1]
            IN  /\ (l # <<>> /\ l[1] = "#") => (KeptPrefix /\ Appended = PARA \o <<NL>>)
                /\ (l # <<>> /\ l[1] \in WhiteSpace /\ "#" \in Range(l)) =>
                       /\ KeptPrefix
                       /\ HoldsLines(Appended, TokensOf(l) \o <<EOS>>)
                       /\ \E n \in 1..Len(TokensOf(l)) : "#" \in Range(TokensOf(l)[n]) ]_vars

\* a comment line with text after the marker and an indented '#' line have
\* both been written
C2_Witness ==
    /\ pc = "write"
    /\ \E i \in 1..ln : Len(lines[i]) >= 2 /\ lines[i][1] = "#"
    /\ \E i \in 1..ln : lines[i] # <<>> /\ lines[i][1] \in WhiteSpace /\ "#" \in Range(lines[i])

\* C3: once a path is processed its output file holds exactly the per-line
\* outputs of the input's lines, in order, whatever the file held before; no
\* lines give an empty file; a final line terminator adds no line.
C3_OutputIsConcatenation ==
    FileDone =>
        LET ls == LinesOf(text)
            out == fs[out_file].data
        IN  /\ fs[out_file].kind = "text"
            /\ HoldsLines(out, ExpectedLinesAll(ls))
            /\ (text = <<>> => out = <<>>)
            /\ (text # <<>> /\ text[Len(text)] \in LineBreaks) =>
                   Count(OutLines(out), EOS) + NumComments(ls) = Cardinality(TermEnds(text))

\* a text of several lines ending in a newline was written over old content
C3_Witness ==
    /\ FileDone
    /\ fs0[out_file].kind = "text" /\ fs0[out_file].data # <<>>
    /\ Len(lines) >= 2
    /\ text[Len(text)] = NL

\* C4: the output path is the final component of the input path followed by
\* '.out'; it has no directory part of its own.
C4_OutputPathFromFinalComponent ==
    (pc \in {"print", "open_out", "write"}) =>
        /\ out_file = FinalComponent(in_file.val) \o OutSuffix
        /\ "/" \notin Range(out_file)
        /\ \A q \in Paths : FinalComponent(q) = FinalComponent(in_file.val) =>
                               OutPathOf(q) = out_file

\* the output path of an input two directories deep has been derived
C4_Witness ==
    /\ pc = "print"
    /\ Cardinality({ i \in 1..Len(in_file.val) : in_file.val[i] = "/" }) >= 2

\* C5: after a run that returns normally the files written are exactly one
\* per distinct final component of the inputs, and each holds the transform
\* of the last input with that final component.
C5_OneOutputPerFinalComponent ==
    (pc = "done") =>
        LET names == { FinalComponent(files[i].val) \o OutSuffix : i \in 1..Len(files) }
        IN  /\ created = names
            /\ (\A i, j \in 1..Len(files) :
                    i # j => FinalComponent(files[i].val) # FinalComponent(files[j].val))
                    => Cardinality(created) = Len(files)
            /\ \A o \in created :
                   HoldsLines(fs[o].data,
                              ExpectedLinesAll(LinesOf(readLog[LastWith(o, Len(files) + 1)])))

\* two paths with the same final component and different contents were run
C5_Witness ==
    /\ pc = "done"
    /\ Len(files) = 2
    /\ files[1].val # files[2].val
    /\ FinalComponent(files[1].val) = FinalComponent(files[2].val)
    /\ readLog[1] # readLog[2]

\* C6: run as a script with readable arguments, every argument is one input
\* path, each is read once in the given order, and the run ends normally
\* (nothing but a failing write to an output file can stop it).
C6_ScriptProcessesEveryArgument ==
    (entry = "script" /\ AllReadable /\ pc \in {"done", "failed"}) =>
        /\ err \in {"none", "IOError_out"}
        /\ err = "none" => /\ Len(readLog) = Len(argv)
                           /\ \A k \in 1..Len(argv) : files[k].kind = "str" /\ files[k].val = argv[k]

\* C7: when opening or decoding the input at position idx fails, the run
\* ends there: that path and the later ones are neither read nor given an
\* output file, and the outputs of the earlier paths are complete.
C7_ReadErrorEndsRun ==
    (pc = "failed" /\ err \in {"TypeError", "IOError", "UnicodeDecodeError"}) =>
        /\ Len(readLog) = idx - 1
        /\ Len(stdout) = idx - 1
        /\ created = { FinalComponent(files[k].val) \o OutSuffix : k \in 1..(idx - 1) }
        /\ \A p \in FsPaths \ created : fs[p] = fs0[p]
        /\ \A o \in created :
               HoldsLines(fs[o].data, ExpectedLinesAll(LinesOf(readLog[LastWith(o, idx)])))

\* the second path could not be decoded after the first was written
C7_Witness ==
    /\ pc = "failed" /\ err = "UnicodeDecodeError"
    /\ idx = 2 /\ Len(files) = 2
    /\ created # {}

\* C8: at most one handle is open at any time, the output is opened only
\* after the input was read and closed, and no handle is open when the next
\* path begins or when the run has ended, normally or by an error.
C8_HandlesScoped ==
    /\ Cardinality(handles) <= 1
    /\ "output" \in handles => ("inpt" \notin handles /\ Len(readLog) = idx)
    /\ pc \in {"start", "for", "open_in", "done", "failed"} => handles = {}

\* a write error part-way through a file has ended the run
C8_Witness ==
    /\ pc = "failed" /\ err = "IOError_out"
    /\ ln >= 1
    /\ created # {}

\* C9 as stated: for every list of readable paths, what is written for a
\* path is the transform of the content its input had when the run started,
\* and no input file is changed.
C9_InputsUntouched ==
    AllReadable =>
        /\ \A p \in Range(argv) : fs[p] = fs0[p]
        /\ FileDone =>
               HoldsLines(fs[out_file].data,
                          ExpectedLinesAll(LinesOf(fs0[files[idx].val].data)))

NoInputIsAnOutput ==
    \A p, q \in Range(argv) : p # FinalComponent(q) \o OutSuffix

\* C9 amended: the same, for lists in which no path names the output file
\* of a path of the list.
C9_InputsUntouchedUnlessOutput ==
    (AllReadable /\ NoInputIsAnOutput) =>
        /\ \A p \in Range(argv) : fs[p] = fs0[p]
        /\ FileDone =>
               HoldsLines(fs[out_file].data,
                          ExpectedLinesAll(LinesOf(fs0[files[idx].val].data)))

\* the second of two different readable paths has been written
C9_Witness ==
    /\ FileDone /\ idx = 2
    /\ AllReadable /\ NoInputIsAnOutput
    /\ files[1].val # files[2].val
    /\ fs0[files[1].val] # fs0[files[2].val]

\* C10: every line of a finished output file is '.PARA', '.End of Sentence'
\* or a non-empty token without whitespace; the '.End of Sentence' lines are
\* as many as the input's non-comment lines, the '.PARA' lines at least as
\* many as its comment lines.
C10_OutputLineShapes ==
    FileDone =>
        /\ \A o \in created :
               /\ NLTerminated(fs[o].data)
               /\ \A n \in 1..Len(OutLines(fs[o].data)) :
                      LET l == OutLines(fs[o].data)[n]
                      IN  \/ l = PARA
                          \/ l = EOS
                          \/ l # <<>> /\ Range(l) \cap WhiteSpace = {}
        /\ LET ls == LinesOf(text)
               out == OutLines(fs[out_file].data)
           IN  /\ Count(out, EOS) = Len(ls) - NumComments(ls)
               /\ Count(out, PARA) >= NumComments(ls)

\* an output with more '.PARA' lines than its input has comment lines
C10_Witness ==
    /\ FileDone
    /\ Count(OutLines(fs[out_file].data), PARA) > NumComments(LinesOf(text))
    /\ NumComments(LinesOf(text)) >= 1
    /\ Count(OutLines(fs[out_file].data), EOS) >= 1

====
